---- MODULE Spec2Model ----
(***************************************************************************)
(* Model of the crate runs_inside_qemu (src/src/lib.rs).                    *)
(*                                                                         *)
(* The hardware evidence (the CPUID leaves) is fixed by Init and never     *)
(* changes.  One call of runs_inside_qemu() is followed statement by       *)
(* statement, so that the order in which the leaves are read and the       *)
(* states in which the two unwrap() calls are reached are visible.  When   *)
(* the call has returned, the caller applies the three predicates of       *)
(* QemuCertainty to the verdict.                                           *)
(***************************************************************************)
EXTENDS Integers, Sequences, FiniteSets, TLC

\* ------------------------------------------------------------------ bounds
\* longest processor brand string that is enumerated
MaxBrandLen == 5

\* ------------------------------------------------------------ value sets
\* Option::None and Option::Some(x)
None == <<"None">>
Some(x) == <<"Some", x>>

\* a local that has not been assigned yet
Unset == <<"Unset">>

\* characters a brand string is made of: the four letters of the marker and
\* a lower-case letter (the search is case sensitive)
BrandChars == {"Q", "E", "M", "U", "q"}

\* the needle of brand_string.contains("QEMU")
QemuMarker == <<"Q", "E", "M", "U">>

\* variants of raw_cpuid::Hypervisor that identify() can return
Hypervisor == {"QEMU", "KVM", "HyperV", "Unknown"}

\* enum QemuCertainty
QemuCertainty == {"DefinitelyNot", "Maybe", "VeryLikely"}

\* the order DefinitelyNot < Maybe < VeryLikely
Rank(c) ==
    CASE c = "DefinitelyNot" -> 0
      [] c = "Maybe"         -> 1
      [] c = "VeryLikely"    -> 2

\* all brand strings of at most MaxBrandLen characters
BrandStrings == UNION {[1..n -> BrandChars] : n \in 0..MaxBrandLen}

\* what the feature leaf (CPUID leaf 1) can look like: unreadable, readable
\* with the hypervisor flag clear, readable with the hypervisor flag set
FeatureLeaves == {"Unreadable", "FlagClear", "FlagSet"}

\* what the hypervisor info leaf can hold: nothing, or an identity
HypervisorLeaves == {None} \cup {Some(h) : h \in Hypervisor}

\* what the brand string leaves can hold: nothing, or a string
BrandLeaves == {None} \cup {Some(s) : s \in BrandStrings}

\* ------------------------------------------------------------ pure parts
\* variant of Contains that looks for the needle at offset 0 only
Contains_prefix_only(haystack, needle) ==
    /\ Len(haystack) >= Len(needle)
    /\ \A i \in 1..Len(needle) : haystack[i] = needle[i]

\* variant of Contains that ignores the case of the letter Q
Contains_ignore_case(haystack, needle) ==
    LET Up(c) == IF c = "q" THEN "Q" ELSE c
    IN  \E off \in 0..(Len(haystack) - Len(needle)) :
            \A i \in 1..Len(needle) : Up(haystack[off + i]) = Up(needle[i])

\* str::contains: the needle occurs at some offset of the haystack
Contains(haystack, needle) ==
    \E off \in 0..(Len(haystack) - Len(needle)) :
        \A i \in 1..Len(needle) : haystack[off + i] = needle[i]

\* variant of get_hypervisor_info that reads the hypervisor info leaf without
\* looking at the hypervisor flag
get_hypervisor_info_ignores_flag(feature, hvleaf) == hvleaf

\* CpuId::get_hypervisor_info as the comment of CHECK 1 describes it: the
\* hypervisor info leaf is read only if the hypervisor flag is present in the
\* features; the result is None when the flag is not set or no hypervisor
\* info is available
get_hypervisor_info(feature, hvleaf) ==
    IF feature = "FlagSet" THEN hvleaf ELSE None

\* CpuId::get_processor_brand_string: the brand string, or None
get_processor_brand_string(brandleaf) == brandleaf

\* QemuCertainty::is_definitely_not
is_definitely_not(self) == self = "DefinitelyNot"

\* QemuCertainty::is_very_likely
is_very_likely(self) == self = "VeryLikely"

\* variant of is_maybe_or_very_likely that forgets VeryLikely
is_maybe_or_very_likely_only_maybe(self) == self = "Maybe"

\* QemuCertainty::is_maybe_or_very_likely
is_maybe_or_very_likely(self) == self = "Maybe" \/ self = "VeryLikely"

\* ------------------------------------------------------------------ state
VARIABLES
    featureLeaf,      \* hardware: the feature leaf with the hypervisor flag
    hvLeaf,           \* hardware: identity in the hypervisor info leaf, or None
    brandLeaf,        \* hardware: the processor brand string, or None
    pc,               \* position of the call inside runs_inside_qemu
    hypervisor_info,  \* local of runs_inside_qemu (Unset before line 110)
    brand_string,     \* local of runs_inside_qemu (Unset before line 129)
    result,           \* the returned QemuCertainty ("none" before the return)
    reads,            \* the leaves queried so far, in order
    log,              \* the log::debug! messages emitted so far
    panicked,         \* an unwrap() was called on None
    answers,          \* what the caller got from the three predicates
    prev              \* verdict of an earlier call on stronger evidence

evidence == <<featureLeaf, hvLeaf, brandLeaf>>
vars == <<featureLeaf, hvLeaf, brandLeaf, pc, hypervisor_info, brand_string,
          result, reads, log, panicked, answers, prev>>

Init ==
    /\ featureLeaf \in FeatureLeaves
    /\ hvLeaf \in HypervisorLeaves
    /\ brandLeaf \in BrandLeaves
    /\ pc = "l110"
    /\ hypervisor_info = Unset
    /\ brand_string = Unset
    /\ result = "none"
    /\ reads = <<>>
    /\ log = <<>>
    /\ panicked = FALSE
    /\ answers = "none"
    /\ prev = "none"

\* line 110: let hypervisor_info = id.get_hypervisor_info();
ReadHypervisorInfo ==
    /\ pc = "l110"
    /\ hypervisor_info' = get_hypervisor_info(featureLeaf, hvLeaf)
    /\ reads' = Append(reads, "hypervisor_info")
    /\ pc' = "l111"
    /\ UNCHANGED <<evidence, brand_string, result, log, panicked, answers, prev>>

\* variant of CheckHypervisorInfoIsNone with the test inverted
CheckHypervisorInfoIsNone_inverted ==
    /\ pc = "l111"
    /\ IF hypervisor_info # None
       THEN /\ log' = Append(log, "definitely_not_no_hypervisor_info")
            /\ result' = "DefinitelyNot"
            /\ pc' = "returned"
       ELSE /\ pc' = "l118"
            /\ UNCHANGED <<log, result>>
    /\ UNCHANGED <<evidence, hypervisor_info, brand_string, reads, panicked,
                   answers, prev>>

\* lines 111-117: if hypervisor_info.is_none() { ...; return DefinitelyNot; }
CheckHypervisorInfoIsNone ==
    /\ pc = "l111"
    /\ IF hypervisor_info = None
       THEN /\ log' = Append(log, "definitely_not_no_hypervisor_info")
            /\ result' = "DefinitelyNot"
            /\ pc' = "returned"
       ELSE /\ pc' = "l118"
            /\ UNCHANGED <<log, result>>
    /\ UNCHANGED <<evidence, hypervisor_info, brand_string, reads, panicked,
                   answers, prev>>

\* line 118: let hypervisor_info = hypervisor_info.unwrap();
UnwrapHypervisorInfo ==
    /\ pc = "l118"
    /\ IF hypervisor_info = None
       THEN /\ panicked' = TRUE
            /\ pc' = "panic"
       ELSE /\ pc' = "l122"
            /\ UNCHANGED panicked
    /\ UNCHANGED <<evidence, hypervisor_info, brand_string, result, reads,
                   log, answers, prev>>

\* variant of CheckIdentity that matches Hypervisor::KVM instead of QEMU
CheckIdentity_matches_kvm ==
    /\ pc = "l122"
    /\ IF hypervisor_info[2] = "KVM"
       THEN /\ log' = Append(log, "very_likely_direct_hypervisor")
            /\ result' = "VeryLikely"
            /\ pc' = "returned"
       ELSE /\ pc' = "l129"
            /\ UNCHANGED <<log, result>>
    /\ UNCHANGED <<evidence, hypervisor_info, brand_string, reads, panicked,
                   answers, prev>>

\* variant of CheckIdentity without the early return: the match is logged and
\* the call goes on to the brand string
CheckIdentity_no_return ==
    /\ pc = "l122"
    /\ IF hypervisor_info[2] = "QEMU"
       THEN log' = Append(log, "very_likely_direct_hypervisor")
       ELSE UNCHANGED log
    /\ pc' = "l129"
    /\ UNCHANGED <<evidence, hypervisor_info, brand_string, result, reads,
                   panicked, answers, prev>>

\* lines 122-125: if matches!(hypervisor_info.identify(), Hypervisor::QEMU)
CheckIdentity ==
    /\ pc = "l122"
    /\ IF hypervisor_info[2] = "QEMU"
       THEN /\ log' = Append(log, "very_likely_direct_hypervisor")
            /\ result' = "VeryLikely"
            /\ pc' = "returned"
       ELSE /\ pc' = "l129"
            /\ UNCHANGED <<log, result>>
    /\ UNCHANGED <<evidence, hypervisor_info, brand_string, reads, panicked,
                   answers, prev>>

\* line 129: let brand_string = id.get_processor_brand_string();
ReadBrandString ==
    /\ pc = "l129"
    /\ brand_string' = get_processor_brand_string(brandLeaf)
    /\ reads' = Append(reads, "brand_string")
    /\ pc' = "l130"
    /\ UNCHANGED <<evidence, hypervisor_info, result, log, panicked, answers, prev>>

\* variant of CheckBrandStringIsNone that returns VeryLikely for a missing
\* brand string
CheckBrandStringIsNone_very_likely ==
    /\ pc = "l130"
    /\ IF brand_string = None
       THEN /\ log' = Append(log, "maybe_no_brand_string")
            /\ result' = "VeryLikely"
            /\ pc' = "returned"
       ELSE /\ pc' = "l136"
            /\ UNCHANGED <<log, result>>
    /\ UNCHANGED <<evidence, hypervisor_info, brand_string, reads, panicked,
                   answers, prev>>

\* lines 130-135: if brand_string.is_none() { ...; return Maybe; }
CheckBrandStringIsNone ==
    /\ pc = "l130"
    /\ IF brand_string = None
       THEN /\ log' = Append(log, "maybe_no_brand_string")
            /\ result' = "Maybe"
            /\ pc' = "returned"
       ELSE /\ pc' = "l136"
            /\ UNCHANGED <<log, result>>
    /\ UNCHANGED <<evidence, hypervisor_info, brand_string, reads, panicked,
                   answers, prev>>

\* lines 136-137: let brand_string = brand_string.unwrap(); ... .as_str();
UnwrapBrandString ==
    /\ pc = "l136"
    /\ IF brand_string = None
       THEN /\ panicked' = TRUE
            /\ pc' = "panic"
       ELSE /\ pc' = "l139"
            /\ UNCHANGED panicked
    /\ UNCHANGED <<evidence, hypervisor_info, brand_string, result, reads,
                   log, answers, prev>>

\* variant of CheckBrandContainsQemu that accepts the brand string only when
\* the hypervisor is KVM
CheckBrandContainsQemu_kvm_only ==
    /\ pc = "l139"
    /\ IF hypervisor_info[2] = "KVM" /\ Contains(brand_string[2], QemuMarker)
       THEN /\ log' = Append(log, "very_likely_with_accelerator")
            /\ result' = "VeryLikely"
       ELSE /\ log' = Append(log, "maybe_brand_not_qemu")
            /\ result' = "Maybe"
    /\ pc' = "returned"
    /\ UNCHANGED <<evidence, hypervisor_info, brand_string, reads, panicked,
                   answers, prev>>

\* lines 139-153: VeryLikely if the brand string contains "QEMU", else Maybe
CheckBrandContainsQemu ==
    /\ pc = "l139"
    /\ IF Contains(brand_string[2], QemuMarker)
       THEN /\ log' = Append(log, "very_likely_with_accelerator")
            /\ result' = "VeryLikely"
       ELSE /\ log' = Append(log, "maybe_brand_not_qemu")
            /\ result' = "Maybe"
    /\ pc' = "returned"
    /\ UNCHANGED <<evidence, hypervisor_info, brand_string, reads, panicked,
                   answers, prev>>

\* lines 63-78: the caller applies the predicates of QemuCertainty to the
\* verdict it got
QueryPredicates ==
    /\ pc = "returned"
    /\ answers' = [is_definitely_not       |-> is_definitely_not(result),
                   is_very_likely          |-> is_very_likely(result),
                   is_maybe_or_very_likely |-> is_maybe_or_very_likely(result)]
    /\ pc' = "queried"
    /\ UNCHANGED <<evidence, hypervisor_info, brand_string, result, reads,
                   log, panicked, prev>>

\* lines 103-104: runs_inside_qemu is called once more, where one of the
\* leaves that was supported is not supported any more; CpuId::new() reads the
\* evidence afresh, nothing is kept from the earlier call but its verdict
CallWithLeafUnsupported ==
    /\ pc = "returned"
    /\ prev = "none"
    /\ \/ /\ featureLeaf = "FlagSet"
          /\ featureLeaf' \in {"FlagClear", "Unreadable"}
          /\ UNCHANGED <<hvLeaf, brandLeaf>>
       \/ /\ hvLeaf # None
          /\ hvLeaf' = None
          /\ UNCHANGED <<featureLeaf, brandLeaf>>
       \/ /\ brandLeaf # None
          /\ brandLeaf' = None
          /\ UNCHANGED <<featureLeaf, hvLeaf>>
    /\ prev' = result
    /\ result' = "none"
    /\ hypervisor_info' = Unset
    /\ brand_string' = Unset
    /\ reads' = <<>>
    /\ pc' = "l110"
    /\ UNCHANGED <<log, panicked, answers>>

Next ==
    \/ ReadHypervisorInfo
    \/ CheckHypervisorInfoIsNone
    \/ UnwrapHypervisorInfo
    \/ CheckIdentity
    \/ ReadBrandString
    \/ CheckBrandStringIsNone
    \/ UnwrapBrandString
    \/ CheckBrandContainsQemu
    \/ QueryPredicates

Spec == Init /\ [][Next]_vars

\* the same, with a second call on weaker evidence
NextWeaken ==
    \/ Next
    \/ CallWithLeafUnsupported

SpecWeaken == Init /\ [][NextWeaken]_vars

\* the call is never suspended: every enabled statement is eventually run
FairSpec == Spec /\ WF_vars(Next)

\* ------------------------------------------------------- claim vocabulary
\* the call has returned its verdict
Returned == pc \in {"returned", "queried"}

\* the verdict of the first call on the evidence of Init
FirstCall == prev = "none"

\* the evidence says that a hypervisor is present
PresenceTrue == featureLeaf = "FlagSet"

\* the hypervisor info leaf names QEMU itself
IdentityIsQemu == hvLeaf = Some("QEMU")

\* the hypervisor info leaf names a hypervisor that is not QEMU
IdentityIsOther == hvLeaf # None /\ hvLeaf # Some("QEMU")

\* the brand string is present and "QEMU" occurs in it, stated by position
BrandHasQemu ==
    /\ brandLeaf # None
    /\ \E i \in 1..(Len(brandLeaf[2]) - 3) :
          SubSeq(brandLeaf[2], i, i + 3) = <<"Q", "E", "M", "U">>

\* the number of predicates that answered true
TrueAnswers ==
    Cardinality({p \in DOMAIN answers : answers[p]})

\* ----------------------------------------------------------------- claims
\* C1: when the hypervisor flag is not set or the feature leaf is unreadable,
\* runs_inside_qemu returns DefinitelyNot, whatever the hypervisor identity
\* and the brand string are.
C1_NoPresenceIsDefinitelyNot ==
    (Returned /\ ~PresenceTrue) => result = "DefinitelyNot"

C1_Witness ==
    /\ Returned
    /\ featureLeaf = "FlagClear"
    /\ IdentityIsQemu
    /\ BrandHasQemu
    /\ result = "DefinitelyNot"

\* C2: when the hypervisor flag is set and the hypervisor identity is QEMU's,
\* runs_inside_qemu returns VeryLikely, whatever the brand string is.
C2_QemuIdentityIsVeryLikely ==
    (Returned /\ PresenceTrue /\ IdentityIsQemu) => result = "VeryLikely"

C2_Witness ==
    /\ Returned
    /\ PresenceTrue
    /\ IdentityIsQemu
    /\ brandLeaf = Some(<<"q", "E", "M", "U">>)
    /\ result = "VeryLikely"

\* C3: when the hypervisor flag is set, the hypervisor identity is a non-QEMU
\* value or is unreadable, and the brand string is absent, runs_inside_qemu
\* returns Maybe; an unreadable identity leaf does not give DefinitelyNot.
C3_NoBrandIsMaybe ==
    (Returned /\ PresenceTrue /\ ~IdentityIsQemu /\ brandLeaf = None)
        => result = "Maybe"

\* C4: when the hypervisor flag is set, the hypervisor identity is a non-QEMU
\* value and the brand string contains "QEMU" at any position,
\* runs_inside_qemu returns VeryLikely.
C4_BrandWithQemuIsVeryLikely ==
    (Returned /\ PresenceTrue /\ IdentityIsOther /\ BrandHasQemu)
        => result = "VeryLikely"

C4_Witness ==
    /\ Returned
    /\ PresenceTrue
    /\ hvLeaf = Some("HyperV")
    /\ brandLeaf = Some(<<"q", "Q", "E", "M", "U">>)
    /\ result = "VeryLikely"

\* C5: when the hypervisor flag is set, the hypervisor identity is a non-QEMU
\* value and the brand string is present without "QEMU" in it,
\* runs_inside_qemu returns Maybe.
C5_BrandWithoutQemuIsMaybe ==
    (Returned /\ PresenceTrue /\ IdentityIsOther /\ brandLeaf # None
        /\ ~BrandHasQemu) => result = "Maybe"

C5_Witness ==
    /\ Returned
    /\ PresenceTrue
    /\ hvLeaf = Some("KVM")
    /\ brandLeaf = Some(<<"q", "E", "M", "U", "Q">>)
    /\ result = "Maybe"

\* C6 as stated: for every variant exactly one of is_definitely_not,
\* is_very_likely and is_maybe_or_very_likely is true.
C6_ExactlyOnePredicate ==
    pc = "queried" => TrueAnswers = 1

\* C6: the three predicates leave no gap, is_definitely_not overlaps with
\* neither of the other two, and is_very_likely and is_maybe_or_very_likely
\* overlap on VeryLikely and only there: one predicate is true for
\* DefinitelyNot and for Maybe, two are true for VeryLikely.
C6_PredicatesCoverWithOneOverlap ==
    pc = "queried" =>
        /\ TrueAnswers >= 1
        /\ answers.is_definitely_not
              => ~(answers.is_very_likely \/ answers.is_maybe_or_very_likely)
        /\ (answers.is_very_likely /\ answers.is_maybe_or_very_likely)
              <=> result = "VeryLikely"
        /\ TrueAnswers = (IF result = "VeryLikely" THEN 2 ELSE 1)

C6_Witness ==
    /\ pc = "queried"
    /\ result = "VeryLikely"
    /\ answers.is_very_likely
    /\ answers.is_maybe_or_very_likely
    /\ ~answers.is_definitely_not

C8_AbsenceNeverRaises ==
    (Returned /\ ~FirstCall) => Rank(result) <= Rank(prev)

C8_Witness ==
    /\ Returned
    /\ prev = "VeryLikely"
    /\ result = "Maybe"
    /\ brandLeaf = None

\* C9: every call ends with one of the three verdicts, no unwrap() panics,
\* and each unwrap() is reached only with a Some value.
C9_TotalNoPanic ==
    /\ [](/\ ~panicked
          /\ pc # "panic"
          /\ pc = "l118" => (hypervisor_info # None /\ hypervisor_info # Unset)
          /\ pc = "l136" => (brand_string # None /\ brand_string # Unset)
          /\ Returned => result \in QemuCertainty)
    /\ <>Returned

C9_Witness ==
    /\ pc = "l136"
    /\ brand_string = Some(<<>>)
    /\ hypervisor_info = Some("KVM")
    /\ ~panicked

\* C10: the hypervisor info is read first; the brand string is read only
\* after the identity was found not to be QEMU; a call that returns
\* DefinitelyNot, or VeryLikely by identity, never reads the brand string;
\* a verdict that was returned is not revised.
C10_ShortCircuitOrder ==
    /\ [](/\ reads \in {<<>>, <<"hypervisor_info">>,
                        <<"hypervisor_info", "brand_string">>}
          /\ (reads # <<>>) <=> (hypervisor_info # Unset)
          /\ (Len(reads) = 2) <=> (brand_string # Unset)
          /\ Len(reads) = 2 =>
                /\ pc \notin {"l110", "l111", "l118", "l122"}
                /\ hypervisor_info # None
                /\ hypervisor_info # Some("QEMU")
          /\ (Returned /\ (result = "DefinitelyNot" \/ IdentityIsQemu))
                => reads = <<"hypervisor_info">>)
    /\ [][result # "none" => (result' = result /\ reads' = reads)]_vars

C10_Witness ==
    /\ Returned
    /\ PresenceTrue
    /\ IdentityIsQemu
    /\ BrandHasQemu
    /\ reads = <<"hypervisor_info">>
====
